---- MODULE Spec2Model ----
(***************************************************************************)
(* A model of mds-import: the downloader (src/mds_import/downloader.py)    *)
(* and the two-stage annotator (src/mds_import/annotator.py).              *)
(*                                                                         *)
(* Every outbound HTTP call is a sequence of attempts whose outcomes are   *)
(* chosen by the environment (the remote service and the network).  The    *)
(* retry behaviour of a call is the behaviour of the urllib3 Retry object  *)
(* of the adapter the call goes through.                                   *)
(***************************************************************************)
EXTENDS Integers, Sequences, FiniteSets, TLC

\* ------------------------------------------------------------------ bounds

\* Files listed in the input directory, fields per dictionary, tokens per
\* recognizer response, identifiers per dictionary list.
MaxFiles == 2
MaxFields == 2
MaxTokens == 2
MaxDDs == 2

\* Consecutive runs of annotate_dds.
MaxRuns == 2

\* ------------------------------------------------------------ HTTP client

NEMOSERVE_ANNOTATE_ENDPOINT == "https://med-nemo.apps.renci.org/annotate/"
SAPBERT_ANNOTATE_ENDPOINT == "https://med-nemo-sapbert.apps.renci.org/annotate/"
MDS_ENDPOINT == "https://preprod.healdata.org/mds/"

\* allowed_methods=None: urllib3 retries a request of any method.
AnyMethod == {"GET", "POST", "HEAD", "PUT", "DELETE", "OPTIONS", "TRACE"}
\* urllib3's DEFAULT_ALLOWED_METHODS: the idempotent methods, POST not among them.
IdempotentMethods == {"GET", "HEAD", "PUT", "DELETE", "OPTIONS", "TRACE"}

\* Retry(total=4, ...): the number of retries allowed after the first attempt.
RetryTotal == 4

STATUS_FORCELIST == {429, 500, 502, 503, 504}

\* Mutant: two retries only.
adapter_TwoRetries ==
    [total |-> 2, allowed_methods |-> AnyMethod,
     status_forcelist |-> STATUS_FORCELIST]

\* Mutant: one retry more.
adapter_FiveRetries ==
    [total |-> RetryTotal + 1, allowed_methods |-> AnyMethod,
     status_forcelist |-> STATUS_FORCELIST]

\* The HTTPAdapter mounted on the shared session for http:// and https://.
adapter ==
    [total |-> RetryTotal, allowed_methods |-> AnyMethod,
     status_forcelist |-> STATUS_FORCELIST]

\* Mutant: the downloader sends its requests through the shared session.
requests_get_adapter_Session == adapter

\* requests.get(): a throw-away session with the default adapter, whose
\* max_retries is Retry(0, read=False).
requests_get_adapter ==
    [total |-> 0, allowed_methods |-> IdempotentMethods, status_forcelist |-> {}]

\* What one attempt can meet: a response with a status, or a transient
\* connection failure (no response).
Status(code) == [status |-> code]
ConnectionFailure == [error |-> "ConnectionError"]
IsStatus(o) == "status" \in DOMAIN o

\* Every outcome the retry policy distinguishes, and the outcomes the
\* environments of a single annotate_text call and of a whole annotation run
\* draw from.
AllOutcomes ==
    {Status(c) : c \in {200, 404} \cup STATUS_FORCELIST} \cup {ConnectionFailure}
TextOutcomes == {Status(200), Status(404), Status(503), ConnectionFailure}
RunOutcomes == {Status(200), Status(404), Status(503)}

\* Retry.is_retry / the connection-error branch of Retry.increment: does the
\* policy `retry` ask for another attempt after outcome `o` of a `method` call?
IsRetry(retry, method, o) ==
    IF IsStatus(o)
    THEN method \in retry.allowed_methods /\ o.status \in retry.status_forcelist
    ELSE TRUE

\* Retry.increment: one retry is used up.
Increment(retry) == [retry EXCEPT !.total = retry.total - 1]

\* Retry.is_exhausted.
IsExhausted(retry) == retry.total < 0

\* Response.ok: raise_for_status() would not raise.
Ok(status) == status < 400

VARIABLES
    http,       \* the call in flight: state, adapter's retry object, result
    attempts    \* outcomes of the attempts of the current call, in order

NoCall ==
    [state |-> "idle", via |-> "none", method |-> "none", url |-> "none",
     retry |-> adapter, status |-> 0, exc |-> "none"]

\* session.post(url, ...) / requests.get(url): the call starts, nothing sent yet.
Send(via, method, url, retry) ==
    [state |-> "sending", via |-> via, method |-> method, url |-> url,
     retry |-> retry, status |-> 0, exc |-> "none"]

session_post(url) == Send("session", "POST", url, adapter)
requests_get(url) == Send("requests", "GET", url, requests_get_adapter)

\* HTTPAdapter.send / urllib3 urlopen after one attempt met outcome o: retry,
\* raise (RetryError after a forced status, ConnectionError after a connection
\* failure) once the retries are exhausted, or hand the response to the caller.
AfterAttempt(h, o) ==
    IF IsRetry(h.retry, h.method, o)
    THEN LET r == Increment(h.retry) IN
         IF IsExhausted(r)
         THEN [h EXCEPT !.state = "raised", !.retry = r,
                        !.exc = IF IsStatus(o) THEN "RetryError" ELSE "ConnectionError"]
         ELSE [h EXCEPT !.retry = r]
    ELSE [h EXCEPT !.state = "response", !.status = o.status]

\* ---------------------------------------------------------- annotate_text

\* A response body: text that is no JSON (response.json() raises), or the
\* value it parses to.
NotJson == [json |-> FALSE]
Json(v) == [json |-> TRUE, value |-> v]

\* Tokens the recognizer can return: two with text (one carrying an obj of its
\* own), one with empty text, one without the text field.
TokenPool ==
    { [text |-> "pain", obj |-> "biolink:Disease"],
      [text |-> "knee", id |-> "T2"],
      [text |-> "", id |-> "T3"],
      [id |-> "T4"] }

RECURSIVE SeqsUpTo(_, _)
SeqsUpTo(S, n) ==
    IF n = 0 THEN {<<>>}
    ELSE LET shorter == SeqsUpTo(S, n - 1) IN
         shorter \cup {Append(q, x) : q \in {r \in shorter : Len(r) = n - 1}, x \in S}

\* Bodies of a successful recognizer response: no JSON, an object without the
\* denotations field, or an object with a list of tokens.
NemoBodies ==
    {NotJson, Json([detail |-> "no denotations"])}
        \cup {Json([denotations |-> toks]) : toks \in SeqsUpTo(TokenPool, MaxTokens)}

\* Candidates the normalizer can return, and one without the label field.
Pain == [curie |-> "D010146", label |-> "Pain", distance_score |-> 1]
Knee == [curie |-> "D007717", label |-> "Knee", distance_score |-> 2]
NoLabel == [curie |-> "D000000", distance_score |-> 3]

\* Bodies of a successful normalizer response: no JSON, no candidate, or a
\* ranked list of candidates.
SapbertBodies ==
    {NotJson, Json(<<>>), Json(<<Pain>>), Json(<<Knee>>), Json(<<Pain, Knee>>),
     Json(<<Knee, Pain>>), Json(<<NoLabel>>)}

\* f"MESH:{curie} ({label}, score: {distance_score})"
Obj(closest_match) ==
    "MESH:" \o closest_match.curie \o " (" \o closest_match.label \o ", score: "
        \o ToString(closest_match.distance_score) \o ")"

\* denotation = dict(token); denotation['obj'] = ...
Denotation(token, closest_match) ==
    [k \in DOMAIN token \cup {"obj"} |->
        IF k = "obj" THEN Obj(closest_match) ELSE token[k]]

VARIABLES
    at_pc,                       \* "idle", "stage1", "stage2", "returned", "raised"
    text,                        \* the argument of the call
    nemo_response,               \* the recognizer's response: status (0 before it), body
    track_token_classification,  \* annotated['denotations']
    token_i,                     \* position of the loop over the tokens
    track_sapbert,               \* the denotations accumulated so far
    sapbert_log,                 \* per normalizer request of this call: token, response
    at_result,                   \* the returned sequence
    at_exc                       \* the exception raised

\* No response yet.
NoResponse == [status |-> 0, body |-> NotJson]

http_vars == <<http, attempts>>
at_vars == <<at_pc, text, nemo_response, track_token_classification, token_i,
             track_sapbert, sapbert_log, at_result, at_exc>>

\* return value
Return(value, track) ==
    /\ at_pc' = "returned"
    /\ at_result' = value
    /\ at_exc' = "none"
    /\ track_sapbert' = track
    /\ http' = NoCall
    /\ attempts' = <<>>

\* Mutant: the exception is swallowed and what was accumulated comes back.
Raise_ReturnsTrack(exc, track) ==
    /\ at_pc' = "returned"
    /\ at_result' = track
    /\ at_exc' = "none"
    /\ track_sapbert' = track
    /\ http' = NoCall
    /\ attempts' = <<>>

\* an exception leaves annotate_text
Raise(exc, track) ==
    /\ at_pc' = "raised"
    /\ at_result' = <<>>
    /\ at_exc' = exc
    /\ track_sapbert' = track
    /\ http' = NoCall
    /\ attempts' = <<>>

\* Mutant: a token with empty text is skipped instead of asserted on.
RECURSIVE Iterate_SkipEmpty(_, _, _, _)
Iterate_SkipEmpty(toks, i, track, log) ==
    IF i > Len(toks)
    THEN Return(track, track) /\ token_i' = i /\ sapbert_log' = log
    ELSE IF "text" \notin DOMAIN toks[i]
    THEN Raise("KeyError", track) /\ token_i' = i /\ sapbert_log' = log
    ELSE IF toks[i].text = ""
    THEN Iterate_SkipEmpty(toks, i + 1, track, log)
    ELSE /\ at_pc' = "stage2"
         /\ token_i' = i
         /\ track_sapbert' = track
         /\ sapbert_log' = Append(log, [token |-> i, status |-> 0, result |-> NotJson])
         /\ http' = session_post(SAPBERT_ANNOTATE_ENDPOINT)
         /\ attempts' = <<>>
         /\ UNCHANGED <<at_result, at_exc>>

\* The loop over the tokens from position i on, up to the next request to
\* the normalizer: the end of the list returns the accumulated denotations, a
\* token without text raises, any other token is sent to the normalizer.
Iterate(toks, i, track, log) ==
    IF i > Len(toks)
    THEN Return(track, track) /\ token_i' = i /\ sapbert_log' = log
    ELSE IF "text" \notin DOMAIN toks[i]
    THEN Raise("KeyError", track) /\ token_i' = i /\ sapbert_log' = log
    ELSE IF toks[i].text = ""
    THEN Raise("AssertionError", track) /\ token_i' = i /\ sapbert_log' = log
    ELSE /\ at_pc' = "stage2"
         /\ token_i' = i
         /\ track_sapbert' = track
         /\ sapbert_log' = Append(log, [token |-> i, status |-> 0, result |-> NotJson])
         /\ http' = session_post(SAPBERT_ANNOTATE_ENDPOINT)
         /\ attempts' = <<>>
         /\ UNCHANGED <<at_result, at_exc>>

\* No call of annotate_text is under way, none has ended.
AtIdle ==
    /\ at_pc' = "idle"
    /\ text' = ""
    /\ nemo_response' = NoResponse
    /\ track_token_classification' = <<>>
    /\ token_i' = 0
    /\ track_sapbert' = <<>>
    /\ sapbert_log' = <<>>
    /\ at_result' = <<>>
    /\ at_exc' = "none"

\* annotate_text(t) up to its request to the recognizer.
annotate_text(t) ==
    /\ at_pc' = "stage1"
    /\ text' = t
    /\ nemo_response' = NoResponse
    /\ track_token_classification' = <<>>
    /\ token_i' = 0
    /\ track_sapbert' = <<>>
    /\ sapbert_log' = <<>>
    /\ at_result' = <<>>
    /\ at_exc' = "none"
    /\ http' = session_post(NEMOSERVE_ANNOTATE_ENDPOINT)
    /\ attempts' = <<>>

\* One attempt of the call in flight meets an outcome.
HttpAttempt(outcomes) ==
    /\ http.state = "sending"
    /\ \E o \in outcomes :
        /\ http' = AfterAttempt(http, o)
        /\ attempts' = Append(attempts, o)

\* The recognizer call raised: the exception leaves annotate_text.
Stage1Raised ==
    /\ at_pc = "stage1"
    /\ http.state = "raised"
    /\ Raise(http.exc, track_sapbert)
    /\ UNCHANGED <<text, nemo_response, track_token_classification, token_i, sapbert_log>>

\* Mutant: a failed recognizer response is parsed like a successful one.
Stage1NotOk_Ignored(status) ==
    /\ nemo_response' = [status |-> status, body |-> NotJson]
    /\ track_token_classification' = <<[text |-> "pain", obj |-> "biolink:Disease"]>>
    /\ Iterate(<<[text |-> "pain", obj |-> "biolink:Disease"]>>, 1, <<>>, sapbert_log)
    /\ UNCHANGED text

\* if not response.ok: return []
Stage1NotOk(status) ==
    /\ nemo_response' = [status |-> status, body |-> NotJson]
    /\ Return(<<>>, track_sapbert)
    /\ UNCHANGED <<text, track_token_classification, token_i, sapbert_log>>

\* The recognizer's response: a failed one returns [], a successful one is
\* parsed and the loop runs up to the first request to the normalizer.
Stage1Response(bodies) ==
    /\ at_pc = "stage1"
    /\ http.state = "response"
    /\ IF ~Ok(http.status)
       THEN Stage1NotOk(http.status)
       ELSE /\ UNCHANGED text
            /\ \E body \in bodies :
                /\ nemo_response' = [status |-> http.status, body |-> body]
                /\ IF ~body.json
                   THEN /\ Raise("JSONDecodeError", track_sapbert)
                        /\ UNCHANGED <<track_token_classification, token_i, sapbert_log>>
                   ELSE IF "denotations" \notin DOMAIN body.value
                   THEN /\ Raise("KeyError", track_sapbert)
                        /\ UNCHANGED <<track_token_classification, token_i, sapbert_log>>
                   ELSE /\ track_token_classification' = body.value.denotations
                        /\ Iterate(body.value.denotations, 1, <<>>, sapbert_log)

\* The last entry of the log gets the response the normalizer gave.
Logged(log, status, body) ==
    [log EXCEPT ![Len(log)] = [@ EXCEPT !.status = status, !.result = body]]

\* The normalizer call raised: the exception leaves annotate_text.
Stage2Raised ==
    /\ at_pc = "stage2"
    /\ http.state = "raised"
    /\ Raise(http.exc, track_sapbert)
    /\ UNCHANGED <<text, nemo_response, track_token_classification, token_i, sapbert_log>>

\* Mutant: a failed normalizer response raises.
Stage2NotOk_Raises(status) ==
    /\ sapbert_log' = Logged(sapbert_log, status, NotJson)
    /\ Raise("RuntimeError", track_sapbert)
    /\ UNCHANGED <<text, nemo_response, track_token_classification, token_i>>

\* Mutant: a failed normalizer response returns what was accumulated.
Stage2NotOk_ReturnsPartial(status) ==
    /\ sapbert_log' = Logged(sapbert_log, status, NotJson)
    /\ Return(track_sapbert, track_sapbert)
    /\ UNCHANGED <<text, nemo_response, track_token_classification, token_i>>

\* Mutant: a failed normalizer response skips the token only.
Stage2NotOk_SkipsToken(status) ==
    /\ Iterate(track_token_classification, token_i + 1, track_sapbert,
               Logged(sapbert_log, status, NotJson))
    /\ UNCHANGED <<text, nemo_response, track_token_classification>>

\* if not response.ok: return []
Stage2NotOk(status) ==
    /\ sapbert_log' = Logged(sapbert_log, status, NotJson)
    /\ Return(<<>>, track_sapbert)
    /\ UNCHANGED <<text, nemo_response, track_token_classification, token_i>>

\* Mutant: the last candidate is taken as the closest match.
ClosestMatch_Last(result) == result[Len(result)]

\* closest_match = result[0]
ClosestMatch(result) == result[1]

\* track_sapbert.append(denotation)
Track(track, denotation) == Append(track, denotation)

\* Mutant: the parsed result is not asserted on.
AssertResult_Off(result) == TRUE

\* assert result: an empty list is falsy.
AssertResult(result) == result # <<>>

\* The normalizer's response for the current token: a failed one returns [],
\* a successful one is parsed, asserted non-empty, its closest match makes the
\* token's denotation, and the loop runs on to the next request or the return.
Stage2Response(bodies) ==
    /\ at_pc = "stage2"
    /\ http.state = "response"
    /\ IF ~Ok(http.status)
       THEN Stage2NotOk(http.status)
       ELSE /\ UNCHANGED <<text, nemo_response, track_token_classification>>
            /\ \E body \in bodies :
                LET log == Logged(sapbert_log, http.status, body)
                    token == track_token_classification[token_i]
                IN  IF ~body.json
                    THEN /\ Raise("JSONDecodeError", track_sapbert)
                         /\ token_i' = token_i
                         /\ sapbert_log' = log
                    ELSE IF ~AssertResult(body.value)
                    THEN /\ Raise("AssertionError", track_sapbert)
                         /\ token_i' = token_i
                         /\ sapbert_log' = log
                    ELSE IF Len(body.value) > 0
                    THEN IF {"curie", "label", "distance_score"}
                                \subseteq DOMAIN ClosestMatch(body.value)
                         THEN Iterate(track_token_classification, token_i + 1,
                                      Track(track_sapbert,
                                            Denotation(token, ClosestMatch(body.value))),
                                      log)
                         ELSE /\ Raise("KeyError", track_sapbert)
                              /\ token_i' = token_i
                              /\ sapbert_log' = log
                    ELSE Iterate(track_token_classification, token_i + 1,
                                 track_sapbert, log)

\* ------------------------------------------------------------- downloader

VARIABLES
    dl_pc,      \* "idle", "list", "dd", "done", "raised"
    dds,        \* the identifiers the list request returned
    dd_i,       \* position of the loop over the identifiers
    dl_exc,     \* the exception that left download_dds
    written     \* identifiers whose dictionary was written to the output directory

dl_vars == <<dl_pc, dds, dd_i, dl_exc, written>>

MDS_PREFIX == "dg.H34L/"

\* Identifiers the list endpoint can return.
UriPool == {"dg.H34L/a1", "dg.H34L/b2", "doi:c3", "x/dg.H34L/d4"}

\* Mutant: the prefix is looked for anywhere in the identifier.
StartsWith_Anywhere(s, prefix) ==
    \E k \in 1..Len(s) :
        k + Len(prefix) - 1 <= Len(s) /\ SubSeq(s, k, k + Len(prefix) - 1) = prefix

\* drs_uri.startswith('dg.H34L/')
StartsWith(s, prefix) ==
    Len(s) >= Len(prefix) /\ SubSeq(s, 1, Len(prefix)) = prefix

\* An exception leaves download_dds.
DlRaise(exc) ==
    /\ dl_pc' = "raised"
    /\ dl_exc' = exc
    /\ http' = NoCall
    /\ attempts' = <<>>

\* retrieve_dd(drs_uri) up to its request; the loop of download_dds from
\* position i on: the end of the list ends the download.
retrieve_dd(uris, i) ==
    IF i > Len(uris)
    THEN /\ dl_pc' = "done"
         /\ dd_i' = i
         /\ http' = NoCall
         /\ attempts' = <<>>
         /\ UNCHANGED dl_exc
    ELSE IF ~StartsWith(uris[i], MDS_PREFIX)
    THEN DlRaise("AssertionError") /\ dd_i' = i
    ELSE /\ dl_pc' = "dd"
         /\ dd_i' = i
         /\ http' = requests_get(MDS_ENDPOINT \o "metadata/" \o uris[i])
         /\ attempts' = <<>>
         /\ UNCHANGED dl_exc

\* download_dds() up to the request of retrieve_dd_list().
download_dds ==
    /\ dl_pc \in {"idle", "done", "raised"}
    /\ at_pc = "idle"
    /\ dl_pc' = "list"
    /\ dds' = <<>>
    /\ dd_i' = 0
    /\ dl_exc' = "none"
    /\ written' = <<>>
    /\ http' = requests_get(MDS_ENDPOINT \o "metadata?_guid_type=data_dictionary&limit=1000")
    /\ attempts' = <<>>
    /\ UNCHANGED at_vars

\* requests.get raised (a connection failure): nothing catches it.
DlRaised ==
    /\ dl_pc \in {"list", "dd"}
    /\ http.state = "raised"
    /\ DlRaise(http.exc)
    /\ UNCHANGED <<dds, dd_i, written, at_vars>>

\* Bodies of a successful list response: no JSON, or a list of identifiers.
ListBodies == {NotJson} \cup {Json(uris) : uris \in SeqsUpTo(UriPool, MaxDDs)}

\* Bodies of a successful dictionary response: no JSON, a document with a
\* data_dictionary, a document without one.
DdBodies == {NotJson, Json([data_dictionary |-> <<>>]), Json([title |-> "no dictionary"])}

\* retrieve_dd_list: a failed response raises RuntimeError, a successful one
\* is the list of identifiers the loop of download_dds runs over.
ListResponse ==
    /\ dl_pc = "list"
    /\ http.state = "response"
    /\ IF ~Ok(http.status)
       THEN DlRaise("RuntimeError") /\ UNCHANGED <<dds, dd_i, written>>
       ELSE \E body \in ListBodies :
                IF ~body.json
                THEN DlRaise("JSONDecodeError") /\ UNCHANGED <<dds, dd_i, written>>
                ELSE /\ dds' = body.value
                     /\ retrieve_dd(body.value, 1)
                     /\ UNCHANGED written
    /\ UNCHANGED at_vars

\* retrieve_dd: a failed response raises RuntimeError, a successful one is
\* written to the output directory, its fields are counted for the log, and
\* the loop goes on.
DdResponse ==
    /\ dl_pc = "dd"
    /\ http.state = "response"
    /\ IF ~Ok(http.status)
       THEN DlRaise("RuntimeError") /\ UNCHANGED <<dds, dd_i, written>>
       ELSE \E body \in DdBodies :
                IF ~body.json
                THEN DlRaise("JSONDecodeError") /\ UNCHANGED <<dds, dd_i, written>>
                ELSE IF "data_dictionary" \notin DOMAIN body.value
                THEN /\ DlRaise("KeyError")
                     /\ written' = Append(written, dds[dd_i])
                     /\ UNCHANGED <<dds, dd_i>>
                ELSE /\ written' = Append(written, dds[dd_i])
                     /\ retrieve_dd(dds, dd_i + 1)
                     /\ UNCHANGED dds
    /\ UNCHANGED at_vars

\* ----------------------------------------------------------- annotate_dds

\* JSON values whose type the code asks for: a list or a mapping.
JList(items) == [type |-> "list", items |-> items]
JDict(items) == [type |-> "dict", items |-> items]

\* dict(): the mapping without keys.
EmptyDict == JDict(<<>>)

\* d.get(key, default)
Get(d, key, default) == IF key \in DOMAIN d.items THEN d.items[key] ELSE default

UpperCase == "ABCDEFGHIJKLMNOPQRSTUVWXYZ"
LowerCase == "abcdefghijklmnopqrstuvwxyz"

\* str.lower() of one character
LowerChar(c) ==
    IF \E k \in 1..Len(UpperCase) : SubSeq(UpperCase, k, k) = c
    THEN LET k == CHOOSE k \in 1..Len(UpperCase) : SubSeq(UpperCase, k, k) = c
         IN  SubSeq(LowerCase, k, k)
    ELSE c

\* str.lower()
RECURSIVE Lower(_)
Lower(s) ==
    IF Len(s) = 0 THEN ""
    ELSE LowerChar(SubSeq(s, 1, 1)) \o Lower(SubSeq(s, 2, Len(s)))

\* str.endswith(suffix)
EndsWith(s, suffix) ==
    Len(s) >= Len(suffix) /\ SubSeq(s, Len(s) - Len(suffix) + 1, Len(s)) = suffix

\* filename.lower().endswith('.json')
IsJsonFile(filename) == EndsWith(Lower(filename), ".json")

\* Mutant: a list under data_dictionary is not handled, only the mapping is.
FieldsOf_ListUnhandled(doc) ==
    LET dd_outer == Get(doc, "data_dictionary", EmptyDict)
        fields == IF dd_outer.type = "list"
                  THEN EmptyDict
                  ELSE Get(dd_outer, "data_dictionary", EmptyDict)
    IN  IF fields.type = "list" THEN fields.items ELSE <<>>

\* The fields of a document: the list under data_dictionary, or the list
\* under data_dictionary.data_dictionary; the default dict() has no key to
\* iterate over.
FieldsOf(doc) ==
    LET dd_outer == Get(doc, "data_dictionary", EmptyDict)
        fields == IF dd_outer.type = "list"
                  THEN dd_outer
                  ELSE Get(dd_outer, "data_dictionary", EmptyDict)
    IN  IF fields.type = "list" THEN fields.items ELSE <<>>

\* The k-th field of a dictionary: odd ones carry type, format and encodings.
FieldAt(k) ==
    IF k % 2 = 1
    THEN JDict([name |-> "field" \o ToString(k), description |-> "knee pain",
                type |-> "integer", format |-> "int32",
                encodings |-> <<<<"0", "No">>, <<"1", "Yes">>>>])
    ELSE JDict([name |-> "field" \o ToString(k)])

FieldList(n) == JList([k \in 1..n |-> FieldAt(k)])

\* The two shapes of a document, and a document without data_dictionary.
BareDoc(n) == JDict([data_dictionary |-> FieldList(n)])
NestedDoc(n) == JDict([data_dictionary |-> JDict([data_dictionary |-> FieldList(n)])])
OtherDoc == JDict([title |-> "not a dictionary"])

\* What a file of the input directory can be: its extension, the shape of
\* its document and the number of its fields.
FileKinds ==
    {[ext |-> ".txt", shape |-> "other", n |-> 0],
     [ext |-> ".json", shape |-> "other", n |-> 0]}
        \cup {[ext |-> ".json", shape |-> "bare", n |-> n] : n \in 0..MaxFields}
        \cup {[ext |-> ".JSON", shape |-> "nested", n |-> n] : n \in 0..MaxFields}

\* The i-th file of the input directory, of the given kind.
File(i, kind) ==
    [filename |-> "dd" \o ToString(i) \o kind.ext,
     doc |-> CASE kind.shape = "bare" -> BareDoc(kind.n)
               [] kind.shape = "nested" -> NestedDoc(kind.n)
               [] OTHER -> OtherDoc]

\* The number of fields of the first k files.
RECURSIVE CountFields(_, _)
CountFields(files, k) ==
    IF k = 0 THEN 0 ELSE Len(FieldsOf(files[k].doc)) + CountFields(files, k - 1)

\* A listing of the input directory: at most MaxFiles files holding at most
\* MaxFields fields together.
IsListing(l) ==
    \E k \in 0..MaxFiles : \E kinds \in [1..k -> FileKinds] :
        /\ l = [i \in 1..k |-> File(i, kinds[i])]
        /\ CountFields(l, k) <= MaxFields

\* encodings_as_str: one "key: value\n" line per encoding, in order.
RECURSIVE EncodingsAsStr(_)
EncodingsAsStr(encodings) ==
    IF encodings = <<>> THEN ""
    ELSE Head(encodings)[1] \o ": " \o Head(encodings)[2] \o "\n"
            \o EncodingsAsStr(Tail(encodings))

\* text_to_annotate = f"{name}: {desc}\n{encodings_as_str}"
TextToAnnotate(field) ==
    Get(field, "name", "") \o ": " \o Get(field, "description", "") \o "\n"
        \o EncodingsAsStr(Get(field, "encodings", <<>>))

\* f'{filename}:{name}'
FieldId(filename, field) == filename \o ":" \o Get(field, "name", "")

VARIABLES
    dds_pc,              \* "idle", "field", "done", "escaped"
    listing,             \* os.listdir(DD_INPUT_DIR), with each file's document
    file_i,              \* position of the loop over the files
    field_i,             \* position of the loop over the fields of the file
    count_files,
    count_fields,
    count_annotations,
    unannotated_fields,
    field_log,           \* per field taken up: its identifier, how its call ended
    annotations_output_dir,  \* ANNOTATIONS_OUTPUT_DIR: does it exist, its entries
    summary_log,         \* the summary logged at the end of each run
    services             \* the answers the two services have given, per request text

\* The variables of a run of annotate_dds.
run_vars == <<dds_pc, listing, file_i, field_i, count_files, count_fields,
              count_annotations, unannotated_fields, field_log,
              annotations_output_dir, summary_log>>

dds_vars == <<run_vars, services>>

\* The output directory before it was ever made.
NoDir == [exists |-> FALSE, entries |-> {}]

\* Mutant: the directory is made if missing, its entries are left alone.
ResetOutputDir_MakedirsOnly(dir) == [exists |-> TRUE, entries |-> dir.entries]

\* shutil.rmtree(ANNOTATIONS_OUTPUT_DIR, ignore_errors=True);
\* os.makedirs(ANNOTATIONS_OUTPUT_DIR, exist_ok=True)
ResetOutputDir(dir) == [exists |-> TRUE, entries |-> {}]

\* logging.info("Completed annotating ... fields from ... files with a total
\* of ... annotations."); logging.info("... fields had no annotations: ...")
Summary(nfiles, nfields, nannotations, unannotated) ==
    [count_files |-> nfiles, count_fields |-> nfields,
     count_annotations |-> nannotations,
     count_unannotated |-> Len(unannotated), unannotated_fields |-> unannotated]

vars == <<http_vars, at_vars, dl_vars, dds_vars>>

\* The two loops from file i, field j on, up to the next field to annotate:
\* files that are no .json are skipped, each .json file taken up counts.
\* j = 0: file i has not been looked at yet.
RECURSIVE NextField(_, _, _, _)
NextField(files, i, j, nfiles) ==
    IF i > Len(files)
    THEN [done |-> TRUE, i |-> i, j |-> 0, count_files |-> nfiles]
    ELSE IF j = 0
    THEN IF IsJsonFile(files[i].filename)
         THEN NextField(files, i, 1, nfiles + 1)
         ELSE NextField(files, i + 1, 0, nfiles)
    ELSE IF j > Len(FieldsOf(files[i].doc))
    THEN NextField(files, i + 1, 0, nfiles)
    ELSE [done |-> FALSE, i |-> i, j |-> j, count_files |-> nfiles]

\* The run goes on from (i, j): the next field is counted and its text sent to
\* annotate_text, or the loops are over and the summary is logged.
Proceed(files, i, j, nfiles, nfields) ==
    LET nxt == NextField(files, i, j, nfiles) IN
    /\ file_i' = nxt.i
    /\ field_i' = nxt.j
    /\ count_files' = nxt.count_files
    /\ IF nxt.done
       THEN /\ dds_pc' = "done"
            /\ count_fields' = nfields
            /\ summary_log' = Append(summary_log,
                    Summary(nxt.count_files, nfields, count_annotations',
                            unannotated_fields'))
            /\ http' = NoCall
            /\ attempts' = <<>>
            /\ AtIdle
       ELSE /\ dds_pc' = "field"
            /\ count_fields' = nfields + 1
            /\ UNCHANGED summary_log
            /\ annotate_text(TextToAnnotate(FieldsOf(files[nxt.i].doc)[nxt.j]))

\* The field whose call is under way.
CurrentField == FieldsOf(listing[file_i].doc)[field_i]
CurrentFieldId == FieldId(listing[file_i].filename, CurrentField)

\* annotate_dds() from its start up to the first call of annotate_text: the
\* output directory is erased and made again, the counters start at zero.
annotate_dds ==
    /\ dds_pc \in {"idle", "done"}
    /\ Len(summary_log) < MaxRuns
    /\ annotations_output_dir' = ResetOutputDir(annotations_output_dir)
    /\ count_annotations' = 0
    /\ unannotated_fields' = <<>>
    /\ field_log' = <<>>
    /\ Proceed(listing, 1, 0, 0, 0)
    /\ UNCHANGED <<listing, services, dl_vars>>

\* Mutant: the list is started anew at every field without annotations.
Unannotated_Reset(unannotated, annotations, id) ==
    IF Len(annotations) = 0 THEN <<id>> ELSE unannotated

\* Mutant: every field whose call returned is recorded.
Unannotated_Always(unannotated, annotations, id) == Append(unannotated, id)

\* if len(annotations) == 0: unannotated_fields.append(f'{filename}:{name}')
Unannotated(unannotated, annotations, id) ==
    IF Len(annotations) = 0 THEN Append(unannotated, id) ELSE unannotated

\* Mutant: one is counted per annotated field, not per annotation.
FieldReturned_CountsFields ==
    /\ dds_pc = "field"
    /\ at_pc = "returned"
    /\ unannotated_fields' = Unannotated(unannotated_fields, at_result, CurrentFieldId)
    /\ count_annotations' = count_annotations + (IF Len(at_result) > 0 THEN 1 ELSE 0)
    /\ field_log' = Append(field_log, [field |-> CurrentFieldId, outcome |-> "returned",
                                       annotations |-> Len(at_result)])
    /\ Proceed(listing, file_i, field_i + 1, count_files, count_fields)
    /\ UNCHANGED <<listing, annotations_output_dir, services, dl_vars>>

\* annotate_text returned: the field without annotations is recorded, the
\* annotations are counted, and the run goes on to the next field.
FieldReturned ==
    /\ dds_pc = "field"
    /\ at_pc = "returned"
    /\ unannotated_fields' = Unannotated(unannotated_fields, at_result, CurrentFieldId)
    /\ count_annotations' = count_annotations + Len(at_result)
    /\ field_log' = Append(field_log, [field |-> CurrentFieldId, outcome |-> "returned",
                                       annotations |-> Len(at_result)])
    /\ Proceed(listing, file_i, field_i + 1, count_files, count_fields)
    /\ UNCHANGED <<listing, annotations_output_dir, services, dl_vars>>

\* The exceptions annotate_text can raise, all of them subclasses of Exception.
Exceptions ==
    {"KeyError", "AssertionError", "JSONDecodeError", "RetryError", "ConnectionError"}

\* Mutant: only the exceptions of the requests library are caught.
Catches_RequestException(exc) == exc \in {"RetryError", "ConnectionError", "JSONDecodeError"}

\* except Exception as e
Catches(exc) == exc \in Exceptions

\* annotate_text raised: the exception is caught and logged, and the run goes
\* on to the next field.
FieldRaised ==
    /\ dds_pc = "field"
    /\ at_pc = "raised"
    /\ IF Catches(at_exc)
       THEN /\ field_log' = Append(field_log, [field |-> CurrentFieldId,
                                               outcome |-> "raised", annotations |-> 0])
            /\ UNCHANGED <<count_annotations, unannotated_fields>>
            /\ Proceed(listing, file_i, field_i + 1, count_files, count_fields)
       ELSE /\ dds_pc' = "escaped"
            /\ field_log' = Append(field_log, [field |-> CurrentFieldId,
                                               outcome |-> "raised", annotations |-> 0])
            /\ UNCHANGED <<http_vars, at_vars, file_i, field_i, count_files,
                           count_fields, count_annotations, unannotated_fields,
                           summary_log>>
    /\ UNCHANGED <<listing, annotations_output_dir, services, dl_vars>>

\* --------------------------------------------------------- specifications

\* No service has answered any request yet.
NoAnswers == [nemo |-> <<>>, sapbert |-> <<>>]

\* The state before anything runs.
Idle ==
    /\ http = NoCall
    /\ attempts = <<>>
    /\ at_pc = "idle"
    /\ text = ""
    /\ nemo_response = NoResponse
    /\ track_token_classification = <<>>
    /\ token_i = 0
    /\ track_sapbert = <<>>
    /\ sapbert_log = <<>>
    /\ at_result = <<>>
    /\ at_exc = "none"
    /\ dl_pc = "idle"
    /\ dds = <<>>
    /\ dd_i = 0
    /\ dl_exc = "none"
    /\ written = <<>>
    /\ dds_pc = "idle"
    /\ file_i = 0
    /\ field_i = 0
    /\ count_files = 0
    /\ count_fields = 0
    /\ count_annotations = 0
    /\ unannotated_fields = <<>>
    /\ field_log = <<>>
    /\ summary_log = <<>>
    /\ services = NoAnswers

\* The bodies the environment of a whole run draws from: every kind of
\* recognizer and normalizer answer, one of each.
RunNemoBodies ==
    {NotJson, Json([detail |-> "no denotations"])}
        \cup {Json([denotations |-> toks]) :
                toks \in {<<>>, <<[text |-> "pain", obj |-> "biolink:Disease"]>>,
                          <<[text |-> "", id |-> "T3"]>>, <<[id |-> "T4"]>>,
                          <<[text |-> "pain", obj |-> "biolink:Disease"],
                            [text |-> "knee", id |-> "T2"]>>}}
RunSapbertBodies == {NotJson, Json(<<>>), Json(<<Pain, Knee>>), Json(<<NoLabel>>)}

\* One run of annotate_dds over any listing of the input directory, the
\* output directory not made yet.
Init == Idle /\ IsListing(listing) /\ annotations_output_dir = NoDir

Next ==
    \/ dds_pc = "idle" /\ annotate_dds
    \/ HttpAttempt(RunOutcomes) /\ UNCHANGED <<at_vars, dl_vars, dds_vars>>
    \/ Stage1Raised /\ UNCHANGED <<dl_vars, dds_vars>>
    \/ Stage1Response(RunNemoBodies) /\ UNCHANGED <<dl_vars, dds_vars>>
    \/ Stage2Raised /\ UNCHANGED <<dl_vars, dds_vars>>
    \/ Stage2Response(RunSapbertBodies) /\ UNCHANGED <<dl_vars, dds_vars>>
    \/ FieldReturned
    \/ FieldRaised

Spec == Init /\ [][Next]_vars

\* The texts a caller hands to annotate_text.
Texts == {"field1: knee pain\n"}

\* A caller calls annotate_text(t).
CallAnnotateText ==
    /\ at_pc \in {"idle", "returned", "raised"}
    /\ dl_pc = "idle"
    /\ \E t \in Texts : annotate_text(t)
    /\ UNCHANGED <<dl_vars, dds_vars>>

\* Calls of annotate_text, each with any answers of the two services.
InitText == Idle /\ listing = <<>> /\ annotations_output_dir = NoDir

NextText ==
    \/ CallAnnotateText
    \/ HttpAttempt(TextOutcomes) /\ UNCHANGED <<at_vars, dl_vars, dds_vars>>
    \/ Stage1Raised /\ UNCHANGED <<dl_vars, dds_vars>>
    \/ Stage1Response(NemoBodies) /\ UNCHANGED <<dl_vars, dds_vars>>
    \/ Stage2Raised /\ UNCHANGED <<dl_vars, dds_vars>>
    \/ Stage2Response(SapbertBodies) /\ UNCHANGED <<dl_vars, dds_vars>>

SpecText == InitText /\ [][NextText]_vars

\* The bodies the environment of the HTTP client's callers draws from.
HttpNemoBodies == {Json([denotations |-> <<[text |-> "pain", obj |-> "biolink:Disease"]>>])}
HttpSapbertBodies == {Json(<<Pain>>)}

\* Every caller of the HTTP client, each attempt meeting any outcome.
NextHttp ==
    \/ CallAnnotateText
    \/ download_dds /\ UNCHANGED dds_vars
    \/ HttpAttempt(AllOutcomes) /\ UNCHANGED <<at_vars, dl_vars, dds_vars>>
    \/ Stage1Raised /\ UNCHANGED <<dl_vars, dds_vars>>
    \/ Stage1Response(HttpNemoBodies) /\ UNCHANGED <<dl_vars, dds_vars>>
    \/ Stage2Raised /\ UNCHANGED <<dl_vars, dds_vars>>
    \/ Stage2Response(HttpSapbertBodies) /\ UNCHANGED <<dl_vars, dds_vars>>
    \/ DlRaised /\ UNCHANGED dds_vars
    \/ ListResponse /\ UNCHANGED dds_vars
    \/ DdResponse /\ UNCHANGED dds_vars

SpecHttp == InitText /\ [][NextHttp]_vars

\* What a service answers to the requests with one text: `fails` times 503,
\* then the status, with the body when the status is a success.
Answer(fails, status, body) == [fails |-> fails, status |-> status, body |-> body]

RerunNemoAnswers ==
    {Answer(RetryTotal + 1, 503, NotJson), Answer(0, 404, NotJson),
     Answer(1, 200, Json([denotations |-> <<[text |-> "pain", obj |-> "biolink:Disease"]>>])),
     Answer(0, 200, Json([denotations |-> <<[text |-> "pain", obj |-> "biolink:Disease"],
                                            [text |-> "knee", id |-> "T2"]>>]))}

RerunSapbertAnswers ==
    {Answer(RetryTotal + 1, 503, NotJson), Answer(0, 404, NotJson),
     Answer(0, 200, Json(<<>>)), Answer(1, 200, Json(<<Pain, Knee>>))}

\* The service the call in flight goes to, and the text of its request.
Service == IF at_pc = "stage1" THEN "nemo" ELSE "sapbert"
RequestText ==
    IF at_pc = "stage1" THEN text ELSE track_token_classification[token_i].text

\* One attempt of the call in flight, answered by a service that gives the
\* same answer to the same text: the first request with a text fixes it.
SameAnswerAttempt ==
    /\ http.state = "sending"
    /\ \E ans \in (IF RequestText \in DOMAIN services[Service]
                    THEN {services[Service][RequestText]}
                    ELSE IF Service = "nemo" THEN RerunNemoAnswers
                    ELSE RerunSapbertAnswers) :
        /\ services' = [services EXCEPT ![Service] = @ @@ (RequestText :> ans)]
        /\ HttpAttempt({IF Len(attempts) < ans.fails
                         THEN Status(503) ELSE Status(ans.status)})
    /\ UNCHANGED <<at_vars, dl_vars, run_vars>>

\* The responses of the two services, with the body fixed for the text.
SameAnswerStage1Response ==
    /\ at_pc = "stage1"
    /\ http.state = "response"
    /\ Stage1Response({services.nemo[text].body})

SameAnswerStage2Response ==
    /\ at_pc = "stage2"
    /\ http.state = "response"
    /\ Stage2Response({services.sapbert[RequestText].body})

\* An output directory that holds the entries of an earlier run.
StaleDir == [exists |-> TRUE, entries |-> {"dd0.json"}]

\* Consecutive runs of annotate_dds over the same listing of files that are
\* no .json or hold fields, the services answering the same text in the same
\* way, the output directory missing or left behind by an earlier run.
InitRerun ==
    /\ Idle
    /\ IsListing(listing)
    /\ \A i \in 1..Len(listing) :
        IsJsonFile(listing[i].filename) => FieldsOf(listing[i].doc) # <<>>
    /\ annotations_output_dir \in {NoDir, StaleDir}

NextRerun ==
    \/ annotate_dds
    \/ SameAnswerAttempt
    \/ Stage1Raised /\ UNCHANGED <<dl_vars, dds_vars>>
    \/ SameAnswerStage1Response /\ UNCHANGED <<dl_vars, dds_vars>>
    \/ Stage2Raised /\ UNCHANGED <<dl_vars, dds_vars>>
    \/ SameAnswerStage2Response /\ UNCHANGED <<dl_vars, dds_vars>>
    \/ FieldReturned
    \/ FieldRaised

SpecRerun == InitRerun /\ [][NextRerun]_vars

\* One run of annotate_dds over two files that hold the same list of fields,
\* the first as the bare list under data_dictionary, the second under
\* data_dictionary.data_dictionary.
InitParse ==
    /\ Idle
    /\ annotations_output_dir = NoDir
    /\ \E n \in 0..MaxFields :
        listing = <<File(1, [ext |-> ".json", shape |-> "bare", n |-> n]),
                    File(2, [ext |-> ".JSON", shape |-> "nested", n |-> n])>>

SpecParse == InitParse /\ [][Next]_vars

\* ------------------------------------------------------------------ claims

\* The identifiers of the fields of the first k files of the listing that
\* are .json files, in file and field order.
RECURSIVE FieldIdsUpTo(_, _)
FieldIdsUpTo(files, k) ==
    IF k = 0 THEN <<>>
    ELSE FieldIdsUpTo(files, k - 1) \o
         (IF EndsWith(files[k].filename, ".json") \/ EndsWith(files[k].filename, ".JSON")
          THEN [j \in 1..Len(FieldsOf(files[k].doc)) |->
                    FieldId(files[k].filename, FieldsOf(files[k].doc)[j])]
          ELSE <<>>)

\* A run under way has a step to take: an attempt of the call in flight, the
\* handling of its outcome by annotate_text, or the handling of the end of
\* annotate_text by annotate_dds.
RunGoesOn ==
    dds_pc = "field" =>
        \/ at_pc \in {"stage1", "stage2"} /\ http.state \in {"sending", "response", "raised"}
        \/ at_pc \in {"returned", "raised"}

\* C1: per-field isolation in annotate_dds.  No exception leaves annotate_dds,
\* a raise of annotate_text leaves the run with a step to take, and a run that
\* has ended has taken up every field of every .json file, in order, whichever
\* of them made annotate_text raise: fieldsProcessed is the number of all
\* fields of the processed files.
C1_PerFieldIsolation ==
    /\ dds_pc # "escaped"
    /\ RunGoesOn
    /\ dds_pc = "done" =>
        /\ [i \in 1..Len(field_log) |-> field_log[i].field]
                = FieldIdsUpTo(listing, Len(listing))
        /\ count_fields = Len(FieldIdsUpTo(listing, Len(listing)))

\* C1 happens: the only field of the first file made annotate_text raise, and
\* the run ended after the field of the second file was annotated.
C1_Witness ==
    /\ dds_pc = "done"
    /\ count_files = 2
    /\ count_fields = 2
    /\ field_log[1].outcome = "raised"
    /\ field_log[2].outcome = "returned"
    /\ field_log[2].annotations > 0

\* C2: at the end of a run every field that got no denotation is in the
\* unannotated-fields list, a field whose annotate_text call raised included.
C2_ZeroAnnotationFieldsListed ==
    dds_pc = "done" =>
        \A i \in 1..Len(field_log) :
            field_log[i].annotations = 0 =>
                \E j \in 1..Len(unannotated_fields) :
                    unannotated_fields[j] = field_log[i].field

\* The recognizer has answered the current call with a failed response.
RecognizerFailed == nemo_response.status # 0 /\ nemo_response.status >= 400

\* The recognizer has answered the current call with a successful response
\* that holds a list of tokens.
RecognizerGaveTokens ==
    /\ nemo_response.status \in 200..399
    /\ nemo_response.body.json
    /\ "denotations" \in DOMAIN nemo_response.body.value

Tokens == nemo_response.body.value.denotations

\* C3: once the recognizer has answered with a non-success response,
\* annotate_text has returned the empty sequence and has sent no request to
\* the normalizer in that call.
C3_RecognizerFailureReturnsEmpty ==
    RecognizerFailed =>
        /\ at_pc = "returned"
        /\ at_result = <<>>
        /\ sapbert_log = <<>>
        /\ http.state = "idle"

\* C3 happens: the recognizer answered 404 and the call has returned.
C3_Witness ==
    /\ nemo_response.status = 404
    /\ at_pc = "returned"

\* The normalizer answered request i of the current call successfully with
\* at least one candidate, all of them with curie, label and distance_score.
GotCandidates(i) ==
    /\ sapbert_log[i].status \in 200..399
    /\ sapbert_log[i].result.json
    /\ Len(sapbert_log[i].result.value) >= 1
    /\ \A c \in 1..Len(sapbert_log[i].result.value) :
            sapbert_log[i].result.value[c] \in {Pain, Knee}

\* The obj of a denotation made from a candidate, written out.
ExpectedObj(candidate) ==
    IF candidate = Pain THEN "MESH:D010146 (Pain, score: 1)"
    ELSE "MESH:D007717 (Knee, score: 2)"

\* C4: when the recognizer gave N tokens, each with non-empty text, and the
\* normalizer gave at least one candidate for each, annotate_text has returned
\* N denotations in token order, denotation i holding every field of token i
\* (obj apart) and the obj made from the first candidate returned for token i.
C4_OneDenotationPerToken ==
    ( /\ RecognizerGaveTokens
      /\ \A i \in 1..Len(Tokens) : "text" \in DOMAIN Tokens[i] /\ Tokens[i].text # ""
      /\ Len(sapbert_log) = Len(Tokens)
      /\ \A i \in 1..Len(sapbert_log) : sapbert_log[i].token = i /\ GotCandidates(i) )
    =>
        /\ at_pc = "returned"
        /\ Len(at_result) = Len(Tokens)
        /\ \A i \in 1..Len(Tokens) :
            /\ DOMAIN at_result[i] = DOMAIN Tokens[i] \cup {"obj"}
            /\ \A k \in DOMAIN Tokens[i] \ {"obj"} : at_result[i][k] = Tokens[i][k]
            /\ at_result[i].obj = ExpectedObj(sapbert_log[i].result.value[1])

\* C4 happens: two tokens, the normalizer ranked Knee before Pain for the
\* first and gave Pain alone for the second, and two denotations came back.
C4_Witness ==
    /\ at_pc = "returned"
    /\ RecognizerGaveTokens
    /\ Tokens = <<[text |-> "knee", id |-> "T2"],
                  [text |-> "pain", obj |-> "biolink:Disease"]>>
    /\ Len(sapbert_log) = 2
    /\ sapbert_log[1].result = Json(<<Knee, Pain>>)
    /\ sapbert_log[2].result = Json(<<Pain>>)
    /\ Len(at_result) = 2

\* A token of the recognizer's list has empty text; the first such token.
HasEmptyToken ==
    /\ RecognizerGaveTokens
    /\ \E i \in 1..Len(Tokens) : "text" \in DOMAIN Tokens[i] /\ Tokens[i].text = ""

FirstEmptyToken ==
    CHOOSE i \in 1..Len(Tokens) :
        /\ "text" \in DOMAIN Tokens[i] /\ Tokens[i].text = ""
        /\ \A j \in 1..(i - 1) : ~("text" \in DOMAIN Tokens[j] /\ Tokens[j].text = "")

\* C5 as stated: when any token of a successful recognizer response has empty
\* text, annotate_text raises: it never returns.
C5_EmptyTokenAlwaysRaises ==
    HasEmptyToken => at_pc # "returned"

\* C5 as amended: when a token has empty text, no normalizer request is sent
\* for it or for a later token, and annotate_text never returns a denotation:
\* it returns the empty sequence only after a failed normalizer response for
\* an earlier token, and it raises AssertionError whenever every earlier token
\* got its denotation.
C5_EmptyTokenRaisesWhenReached ==
    HasEmptyToken =>
        /\ \A n \in 1..Len(sapbert_log) : sapbert_log[n].token < FirstEmptyToken
        /\ at_pc = "returned" =>
            /\ at_result = <<>>
            /\ sapbert_log # <<>>
            /\ sapbert_log[Len(sapbert_log)].status >= 400
        /\ ( /\ Len(sapbert_log) = FirstEmptyToken - 1
             /\ \A n \in 1..Len(sapbert_log) : GotCandidates(n) )
            => at_pc = "raised" /\ at_exc = "AssertionError"

\* C5 happens: the second token has empty text, the first got its denotation,
\* and annotate_text raised AssertionError with one request sent.
C5_Witness ==
    /\ HasEmptyToken
    /\ FirstEmptyToken = 2
    /\ Len(sapbert_log) = 1
    /\ GotCandidates(1)
    /\ Len(track_sapbert) = 1
    /\ at_pc = "raised"
    /\ at_exc = "AssertionError"

\* C6: a non-success response of the normalizer for a token ends the call at
\* once: annotate_text has returned the empty sequence, whatever it had
\* accumulated, and that request is the last one of the call.
C6_NormalizerFailureReturnsEmpty ==
    \A n \in 1..Len(sapbert_log) :
        sapbert_log[n].status >= 400 =>
            /\ n = Len(sapbert_log)
            /\ at_pc = "returned"
            /\ at_result = <<>>
            /\ http.state = "idle"

\* C6 happens: the first of two tokens got its denotation, the normalizer
\* answered 404 for the second, and the empty sequence came back.
C6_Witness ==
    /\ RecognizerGaveTokens
    /\ Len(Tokens) = 2
    /\ Len(sapbert_log) = 2
    /\ sapbert_log[2].status = 404
    /\ Len(track_sapbert) = 1
    /\ at_pc = "returned"
    /\ at_result = <<>>

\* The normalizer answered request n successfully with a list whose first
\* candidate has curie, label and distance_score: token n got its denotation.
FirstCandidateUsable(n) ==
    /\ sapbert_log[n].status \in 200..399
    /\ sapbert_log[n].result.json
    /\ Len(sapbert_log[n].result.value) >= 1
    /\ {"curie", "label", "distance_score"} \subseteq DOMAIN sapbert_log[n].result.value[1]

\* The loop has come to token i: every earlier token got its denotation.
Reached(i) ==
    /\ Len(sapbert_log) = i - 1
    /\ \A n \in 1..Len(sapbert_log) : FirstCandidateUsable(n)

\* The causes of a hard failure, as they show in the current call.
Stage2NotOkSeen ==
    sapbert_log # <<>> /\ sapbert_log[Len(sapbert_log)].status >= 400

MalformedStage1Seen ==
    /\ nemo_response.status \in 200..399
    /\ ~nemo_response.body.json \/ "denotations" \notin DOMAIN nemo_response.body.value

MalformedStage2Seen ==
    /\ sapbert_log # <<>>
    /\ sapbert_log[Len(sapbert_log)].status \in 200..399
    /\ \/ ~sapbert_log[Len(sapbert_log)].result.json
       \/ /\ Len(sapbert_log[Len(sapbert_log)].result.value) >= 1
          /\ ~FirstCandidateUsable(Len(sapbert_log))

EmptyTextSeen ==
    /\ RecognizerGaveTokens
    /\ \E i \in 1..Len(Tokens) :
        "text" \in DOMAIN Tokens[i] /\ Tokens[i].text = "" /\ Reached(i)

MissingTextSeen ==
    /\ RecognizerGaveTokens
    /\ \E i \in 1..Len(Tokens) : "text" \notin DOMAIN Tokens[i] /\ Reached(i)

\* No exception has left annotate_dds, and every field taken up before the
\* current one is in the log of the run: a raise is caught per field.
CaughtPerField ==
    /\ dds_pc # "escaped"
    /\ count_fields = Len(field_log) + (IF dds_pc = "field" THEN 1 ELSE 0)

\* C7 as stated: each cause of a hard failure makes annotate_text raise, a
\* stage-2 response that is not OK included, and annotate_dds catches it.
C7_EveryHardFailureRaises ==
    /\ CaughtPerField
    /\ ( dds_pc = "field"
         /\ (Stage2NotOkSeen \/ MalformedStage1Seen \/ MalformedStage2Seen
                \/ EmptyTextSeen \/ MissingTextSeen) )
        => at_pc = "raised"

\* C7 as amended: a malformed response or a missing field at either stage and
\* a token with empty text make annotate_text raise, and annotate_dds catches
\* the exception per field; a stage-2 response that is not OK raises nothing:
\* annotate_text returns the empty sequence.
C7_HardFailuresRaiseExceptStage2NotOk ==
    /\ CaughtPerField
    /\ ( dds_pc = "field"
         /\ (MalformedStage1Seen \/ MalformedStage2Seen \/ EmptyTextSeen
                \/ MissingTextSeen) )
        => at_pc = "raised" /\ at_exc \in {"JSONDecodeError", "KeyError", "AssertionError"}
    /\ (dds_pc = "field" /\ Stage2NotOkSeen)
        => at_pc = "returned" /\ at_result = <<>>

\* C7 happens: the first field raised on a token with empty text and was
\* caught, and for the second the normalizer answered 404 and annotate_text
\* returned.
C7_Witness ==
    /\ dds_pc = "field"
    /\ Len(field_log) = 1
    /\ field_log[1].outcome = "raised"
    /\ count_fields = 2
    /\ Stage2NotOkSeen
    /\ at_pc = "returned"

\* The first n attempts of the current call all met status 503.
All503(n) == \A k \in 1..n : attempts[k] = Status(503)

\* C8: a call through the shared session that meets 503 on attempts 1, 2 and
\* 3 is still under way after each of them, and with 200 on attempt 4 it has
\* completed successfully after exactly 4 attempts.
C8_ThreeRetriesThenSuccess ==
    http.via = "session" =>
        /\ (Len(attempts) \in 1..3 /\ All503(Len(attempts))) => http.state = "sending"
        /\ (Len(attempts) >= 4 /\ All503(3) /\ attempts[4] = Status(200)) =>
            /\ http.state = "response"
            /\ http.status = 200
            /\ Len(attempts) = 4

\* C8 happens: 503, 503, 503, 200 and the response is with the caller.
C8_Witness ==
    /\ http.via = "session"
    /\ attempts = <<Status(503), Status(503), Status(503), Status(200)>>
    /\ http.state = "response"

\* An outcome the session retries: a status of the force list, a connection
\* failure.
Retryable(o) ==
    \/ o = ConnectionFailure
    \/ o \in {Status(429), Status(500), Status(502), Status(503), Status(504)}

\* C9 as stated: a call through the HTTP client makes at most 4 attempts.
C9_AtMostFourAttempts ==
    http.via = "session" => Len(attempts) <= 4

\* C9 as amended: a call through the shared session makes at most 5 attempts,
\* the first one and 4 retries; it goes on after each of the first 4 retryable
\* outcomes and gives up, raising, at the fifth.
C9_AtMostFiveAttempts ==
    http.via = "session" =>
        /\ Len(attempts) <= 5
        /\ (Len(attempts) \in 1..4 /\ \A k \in 1..Len(attempts) : Retryable(attempts[k]))
            => http.state = "sending"
        /\ (Len(attempts) = 5 /\ \A k \in 1..5 : Retryable(attempts[k]))
            => http.state = "raised"
        /\ http.state = "raised" => Len(attempts) = 5

\* C9 happens: five retryable outcomes, a connection failure among them, and
\* the call has given up.
C9_Witness ==
    /\ http.via = "session"
    /\ attempts = <<Status(429), Status(500), ConnectionFailure, Status(502), Status(504)>>
    /\ http.state = "raised"

\* C10 as stated: every call, a GET of the downloader too, is retried on a
\* retryable status: after such a status the call is under way or has given
\* up, it never hands that response to the caller.
C10_EveryCallRetried ==
    http.state = "response" => http.status \notin STATUS_FORCELIST

\* C10 as amended: the calls through the shared session, the POST requests
\* to the recognizer and the normalizer, are retried on a retryable status;
\* the GET requests of the downloader do not go through the session and are
\* attempted exactly once, whatever the outcome.
C10_SessionRetriesDownloaderDoesNot ==
    /\ http.url \in {NEMOSERVE_ANNOTATE_ENDPOINT, SAPBERT_ANNOTATE_ENDPOINT} =>
        /\ http.via = "session"
        /\ http.method = "POST"
        /\ http.state = "response" => http.status \notin STATUS_FORCELIST
        /\ ( /\ Len(attempts) \in 1..4
             /\ IsStatus(attempts[Len(attempts)])
             /\ attempts[Len(attempts)].status \in STATUS_FORCELIST )
            => http.state = "sending"
    /\ dl_pc \in {"list", "dd"} =>
        /\ http.via = "requests"
        /\ http.method = "GET"
        /\ Len(attempts) <= 1
        /\ Len(attempts) = 1 => http.state \in {"response", "raised"}
        /\ (Len(attempts) = 1 /\ IsStatus(attempts[1])) =>
            http.state = "response" /\ http.status = attempts[1].status

\* C10 happens: the GET of one dictionary met 503 on its only attempt and the
\* response is with retrieve_dd.
C10_Witness ==
    /\ dl_pc = "dd"
    /\ http.method = "GET"
    /\ attempts = <<Status(503)>>
    /\ http.state = "response"
    /\ http.status = 503

\* C11: when every attempt of a call through the shared session met a
\* retryable status, the client does not raise, it hands the failed response
\* to the caller: no RetryError ever leaves annotate_text, a recognizer that
\* keeps answering 503 makes it return the empty sequence.
C11_ExhaustedRetriesHandBackResponse ==
    /\ ( /\ http.via = "session"
         /\ \A k \in 1..Len(attempts) :
                IsStatus(attempts[k]) /\ attempts[k].status \in STATUS_FORCELIST )
        => http.state # "raised"
    /\ at_exc # "RetryError"

\* The normalizer answered request n of the current call successfully with
\* a list of zero candidates.
ZeroCandidates(n) ==
    /\ sapbert_log[n].status \in 200..399
    /\ sapbert_log[n].result = Json(<<>>)

\* C12 as stated: when the normalizer answered the last token with zero
\* candidates, the token is dropped without error: annotate_text has returned
\* the denotations of the other tokens.
C12_ZeroCandidatesTokenDropped ==
    ( /\ RecognizerGaveTokens
      /\ sapbert_log # <<>>
      /\ sapbert_log[Len(sapbert_log)].token = Len(Tokens)
      /\ ZeroCandidates(Len(sapbert_log)) )
    =>
        /\ at_pc = "returned"
        /\ at_result = track_sapbert

\* C12 as amended: a successful normalizer response with zero candidates
\* makes annotate_text raise AssertionError at that token: it is the last
\* request of the call, and no denotation comes back, not even those the
\* earlier tokens had got.
C12_ZeroCandidatesRaises ==
    \A n \in 1..Len(sapbert_log) :
        ZeroCandidates(n) =>
            /\ n = Len(sapbert_log)
            /\ at_pc = "raised"
            /\ at_exc = "AssertionError"
            /\ at_result = <<>>
            /\ http.state = "idle"

\* C12 happens: the first of two tokens got its denotation, the normalizer
\* gave zero candidates for the second, and annotate_text raised.
C12_Witness ==
    /\ RecognizerGaveTokens
    /\ Len(Tokens) = 2
    /\ Len(sapbert_log) = 2
    /\ GotCandidates(1)
    /\ ZeroCandidates(2)
    /\ Len(track_sapbert) = 1
    /\ at_pc = "raised"
    /\ at_exc = "AssertionError"

\* C13: when the last answer of the normalizer is a successful response
\* whose parsed body is empty, annotate_text has failed with AssertionError
\* and the whole text is without denotations: nothing is returned, whatever
\* the earlier tokens had got, and the later tokens are never sent.
C13_EmptyBodyAbortsText ==
    /\ ( sapbert_log # <<>> /\ ZeroCandidates(Len(sapbert_log)) )
        => /\ at_pc = "raised"
           /\ at_exc = "AssertionError"
           /\ at_result = <<>>
           /\ token_i = sapbert_log[Len(sapbert_log)].token
    /\ at_pc = "returned" => \A n \in 1..Len(sapbert_log) : ~ZeroCandidates(n)

\* C13 happens: the normalizer gave an empty body for the first of two
\* tokens; annotate_text raised and the second token was never sent.
C13_Witness ==
    /\ RecognizerGaveTokens
    /\ Len(Tokens) = 2
    /\ Len(sapbert_log) = 1
    /\ ZeroCandidates(1)
    /\ token_i = 1
    /\ at_pc = "raised"
    /\ at_exc = "AssertionError"
    /\ at_result = <<>>

\* C14: idempotence of annotate_dds.  Every later run over the same input
\* with the same answers of the services reports the summary of the first
\* run: the same counts of files, fields, annotations and unannotated fields;
\* and from the start of a run on the output directory exists and holds
\* nothing of what was there before.
C14_Idempotent ==
    /\ \A r \in 2..Len(summary_log) :
        /\ summary_log[r].count_files = summary_log[1].count_files
        /\ summary_log[r].count_fields = summary_log[1].count_fields
        /\ summary_log[r].count_annotations = summary_log[1].count_annotations
        /\ summary_log[r].count_unannotated = summary_log[1].count_unannotated
        /\ summary_log[r].unannotated_fields = summary_log[1].unannotated_fields
    /\ dds_pc # "idle" => annotations_output_dir = [exists |-> TRUE, entries |-> {}]

\* C14 happens: the second run has ended like the first, with a skipped file
\* and the two fields of a dictionary, annotations for one of them and none
\* for the other.
C14_Witness ==
    /\ dds_pc = "done"
    /\ Len(summary_log) = 2
    /\ Len(listing) = 2
    /\ summary_log[2].count_files = 1
    /\ summary_log[2].count_fields = 2
    /\ summary_log[2].count_annotations >= 1
    /\ summary_log[2].count_unannotated = 1

\* The list a document holds, under data_dictionary or one level below.
HeldList(doc) ==
    IF doc.items.data_dictionary.type = "list"
    THEN doc.items.data_dictionary.items
    ELSE doc.items.data_dictionary.items.data_dictionary.items

\* C15: for a document with the bare list under data_dictionary and a
\* document with the same list under data_dictionary.data_dictionary, the
\* parsing of annotate_dds gives the same sequence of fields, the list held;
\* a run over the two files takes up the same fields for each, in order.
C15_BareAndNestedSameFields ==
    /\ FieldsOf(listing[1].doc) = FieldsOf(listing[2].doc)
    /\ FieldsOf(listing[1].doc) = HeldList(listing[2].doc)
    /\ dds_pc = "done" =>
        LET n == Len(HeldList(listing[1].doc)) IN
        /\ Len(field_log) = 2 * n
        /\ \A k \in 1..n :
            /\ field_log[k].field = FieldId(listing[1].filename, HeldList(listing[2].doc)[k])
            /\ field_log[n + k].field = FieldId(listing[2].filename, HeldList(listing[1].doc)[k])

\* C15 happens: the run has taken up the two fields of the bare list and the
\* same two fields of the nested one.
C15_Witness ==
    /\ dds_pc = "done"
    /\ listing[1].doc.items.data_dictionary.type = "list"
    /\ listing[2].doc.items.data_dictionary.type = "dict"
    /\ Len(field_log) = 4
    /\ field_log[1].field = "dd1.json:field1"
    /\ field_log[2].field = "dd1.json:field2"
    /\ field_log[3].field = "dd2.JSON:field1"
    /\ field_log[4].field = "dd2.JSON:field2"

\* The identifier the loop of download_dds is at.
CurrentUri == dds[dd_i]

\* The identifiers with the prefix dg.H34L/.
Prefixed == {"dg.H34L/a1", "dg.H34L/b2"}

\* C16: retrieve_dd sends a request to the metadata service only for an
\* identifier that starts with dg.H34L/; for any other identifier it has
\* failed with AssertionError before anything was sent: no call is in
\* flight, no attempt was made, nothing was written for it.
C16_PrefixCheckedBeforeRequest ==
    /\ dl_pc = "dd" =>
        /\ CurrentUri \in Prefixed
        /\ http.url = MDS_ENDPOINT \o "metadata/" \o CurrentUri
    /\ (dd_i \in 1..Len(dds) /\ CurrentUri \notin Prefixed) =>
        /\ dl_pc = "raised"
        /\ dl_exc = "AssertionError"
        /\ http.state = "idle"
        /\ attempts = <<>>
        /\ Len(written) = dd_i - 1
    /\ \A k \in 1..Len(written) : written[k] \in Prefixed

\* C16 happens: the first identifier was retrieved and written, the second
\* holds the prefix but does not start with it, and download_dds has failed.
C16_Witness ==
    /\ dds = <<"dg.H34L/a1", "x/dg.H34L/d4">>
    /\ dd_i = 2
    /\ written = <<"dg.H34L/a1">>
    /\ dl_pc = "raised"
    /\ dl_exc = "AssertionError"

\* The identifiers of the first k fields taken up whose annotate_text call
\* returned the empty sequence, in the order they were taken up.
RECURSIVE ReturnedEmpty(_, _)
ReturnedEmpty(log, k) ==
    IF k = 0 THEN <<>>
    ELSE IF log[k].outcome = "returned" /\ log[k].annotations = 0
    THEN Append(ReturnedEmpty(log, k - 1), log[k].field)
    ELSE ReturnedEmpty(log, k - 1)

\* C17: the unannotated-fields list holds, once each and in file and field
\* order, the identifiers of exactly the fields for which annotate_text
\* returned the empty sequence: not those it raised for, not those it
\* annotated; and the summary of the run reports the length of that list.
C17_UnannotatedListedWhenReturnedEmpty ==
    /\ unannotated_fields = ReturnedEmpty(field_log, Len(field_log))
    /\ dds_pc = "done" =>
        /\ summary_log[Len(summary_log)].count_unannotated = Len(unannotated_fields)
        /\ summary_log[Len(summary_log)].unannotated_fields = unannotated_fields

\* C17 happens: annotate_text raised for the first field and returned the
\* empty sequence for the second; the run ended with the second alone listed.
C17_Witness ==
    /\ dds_pc = "done"
    /\ Len(field_log) = 2
    /\ field_log[1].outcome = "raised"
    /\ field_log[2].outcome = "returned"
    /\ field_log[2].annotations = 0
    /\ unannotated_fields = <<"dd1.json:field2">>
    /\ summary_log[1].count_unannotated = 1

\* Sequence s is the beginning of sequence q.
IsPrefix(s, q) == Len(s) <= Len(q) /\ SubSeq(q, 1, Len(s)) = s

\* C18: no step of a run of annotate_dds decreases or resets the counters of
\* files, fields and annotations, and the unannotated-fields list only grows
\* at its end, whether the field was annotated, came back empty or raised.
C18_CountersNeverDecrease ==
    [][ /\ count_files' >= count_files
        /\ count_fields' >= count_fields
        /\ count_annotations' >= count_annotations
        /\ Len(unannotated_fields') >= Len(unannotated_fields)
        /\ IsPrefix(unannotated_fields, unannotated_fields') ]_vars

\* C18 happens: the first field got two annotations, annotate_text raised
\* for the second, and the run ended with the counts of the first standing.
C18_Witness ==
    /\ dds_pc = "done"
    /\ Len(field_log) = 2
    /\ field_log[1].outcome = "returned"
    /\ field_log[1].annotations = 2
    /\ field_log[2].outcome = "raised"
    /\ count_files = 2
    /\ count_fields = 2
    /\ count_annotations = 2
    /\ unannotated_fields = <<>>

\* C19: annotate_text is all-or-nothing per text.  A call that has returned
\* after a recognizer response with N tokens has returned N denotations, one
\* per token in token order, or none at all; a call that has raised has
\* returned nothing; after any other recognizer response it returns nothing.
C19_AllOrNothing ==
    /\ at_pc = "returned" =>
        IF RecognizerGaveTokens
        THEN \/ at_result = <<>>
             \/ /\ Len(at_result) = Len(Tokens)
                /\ \A i \in 1..Len(Tokens) : at_result[i].text = Tokens[i].text
        ELSE at_result = <<>>
    /\ at_pc = "raised" => at_result = <<>>

\* C19 happens: of two tokens the first got its denotation, the normalizer's
\* answer for the second was no JSON, and annotate_text raised: the
\* denotation of the first token did not come back.
C19_Witness ==
    /\ RecognizerGaveTokens
    /\ Len(Tokens) = 2
    /\ Len(sapbert_log) = 2
    /\ sapbert_log[2].status = 200
    /\ ~sapbert_log[2].result.json
    /\ Len(track_sapbert) = 1
    /\ at_pc = "raised"
    /\ at_exc = "JSONDecodeError"
    /\ at_result = <<>>

\* Of the first k fields taken up: how many got at least one denotation, how
\* many made annotate_text raise, and the denotations returned in all.
RECURSIVE AnnotatedFields(_, _)
AnnotatedFields(log, k) ==
    IF k = 0 THEN 0
    ELSE AnnotatedFields(log, k - 1)
         + (IF log[k].outcome = "returned" /\ log[k].annotations >= 1 THEN 1 ELSE 0)

RECURSIVE RaisedFields(_, _)
RaisedFields(log, k) ==
    IF k = 0 THEN 0
    ELSE RaisedFields(log, k - 1) + (IF log[k].outcome = "raised" THEN 1 ELSE 0)

RECURSIVE ReturnedDenotations(_, _)
ReturnedDenotations(log, k) ==
    IF k = 0 THEN 0
    ELSE ReturnedDenotations(log, k - 1)
         + (IF log[k].outcome = "returned" THEN log[k].annotations ELSE 0)

\* The fields whose step is over: the field whose call is under way is
\* counted already (count_fields += 1 comes first in the loop body).
FieldsDone == count_fields - (IF dds_pc = "field" THEN 1 ELSE 0)

\* C20: accounting of annotate_dds.  After every field step the fields
\* processed are the fields that got at least one denotation, plus the
\* fields of the unannotated list, plus the fields whose call raised; and the
\* annotations counted are the denotations returned by the calls that did not
\* raise.
C20_Accounting ==
    /\ FieldsDone = Len(field_log)
    /\ FieldsDone = AnnotatedFields(field_log, Len(field_log))
                        + Len(unannotated_fields)
                        + RaisedFields(field_log, Len(field_log))
    /\ count_annotations = ReturnedDenotations(field_log, Len(field_log))

\* C20 happens: the first field got two denotations, annotate_text raised
\* for the second, and the run has ended: two fields, one of them annotated,
\* one raised, none unannotated, two annotations.
C20_Witness ==
    /\ dds_pc = "done"
    /\ Len(field_log) = 2
    /\ field_log[1].outcome = "returned"
    /\ field_log[1].annotations = 2
    /\ field_log[2].outcome = "raised"
    /\ count_fields = 2
    /\ count_annotations = 2
    /\ Len(unannotated_fields) = 0
    /\ RaisedFields(field_log, 2) = 1
====
